---- MODULE Spec2Model ----
(***************************************************************************)
(* A model of integration/get_beacon_info.py (activecm/rita): the beacon   *)
(* scoring script.  Timestamps are counted in ticks of 1/Res second, so    *)
(* that int() and math.floor() are real truncations.  Python floats are    *)
(* modelled as exact rationals [n, d] (d > 0), with d = 0 standing for     *)
(* NaN; the three-decimal scores are rationals over 1000.                  *)
(***************************************************************************)
EXTENDS Integers, Sequences, FiniteSets, TLC

VARIABLES
    pc,             \* position of the running call
    arg,            \* arguments of the function under call
    res,            \* what the function returned (or its exit)
    tsData, dsData, \* analyze: the series the ingestion step appended
    minTs, maxTs,   \* analyze: the dataset window
    sortedTsData, sortedDsData,
    tsScore, dsScore, histScore, durScore, score,
    hist,           \* analyze: what getTsHistogramScore returned
    durArgs,        \* analyze: the (histMin, histMax) handed to getDurationScore
    exitCode,       \* -1 while running, else the status of exit()
    exitMsg,        \* the message printed before exit()
    calls,          \* the scorers entered so far, with the length of their input
    bucketDivs, sortedData, i, bucket, freqList, k,  \* createHistogram's frame
    uids,           \* getSNIBeacon: the conn records by zeek uid (getConnData)
    minTsStartOfHour,
    fqdnField,      \* readSNIFile: the name field of the log type being read
    linesRead       \* readSNIFile: the log lines read so far, with the field looked up

fnVars == <<arg, res>>
analyzeVars == <<tsData, dsData, minTs, maxTs, sortedTsData, sortedDsData, tsScore,
                 dsScore, histScore, durScore, score, hist, durArgs, exitCode,
                 exitMsg, calls>>
histVars == <<bucketDivs, sortedData, i, bucket, freqList, k>>
sniVars == <<uids, minTsStartOfHour, fqdnField, linesRead>>
vars == <<pc, fnVars, analyzeVars, histVars, sniVars>>

----------------------------------------------------------------------------
(* Bounds of the model *)

\* ticks per second
Res == 2
\* longest series enumerated in full
MaxLen == 4

----------------------------------------------------------------------------
(* Program constants *)

bimodalMinHours == 11
bimodalOutlierRemoval == 1
durMinHours == 6
consistencyIdealHours == 12
\* the bucket count getTsHistogramScore passes to createBuckets
BucketCount == 24
\* calculateBowleySkewness: the least quartile spread that is scored
MinQuartileSpread == 10

----------------------------------------------------------------------------
(* Exact arithmetic standing for Python's float arithmetic *)

RECURSIVE GCD(_, _)
GCD(a, b) == IF b = 0 THEN a ELSE GCD(b, a % b)

IAbs(x) == IF x < 0 THEN -x ELSE x
IMax(a, b) == IF a >= b THEN a ELSE b
IMin(a, b) == IF a <= b THEN a ELSE b

NaN == [n |-> 0, d |-> 0]
IsNaN(x) == x.d = 0

\* n/d in lowest terms, d > 0
Rat(n, d) ==
    LET s == IF d < 0 THEN -1 ELSE 1
        g == GCD(IAbs(n), IAbs(d))
    IN  IF d = 0 THEN NaN ELSE [n |-> (s * n) \div g, d |-> (s * d) \div g]

FromInt(x) == [n |-> x, d |-> 1]
RAdd(x, y) == IF IsNaN(x) \/ IsNaN(y) THEN NaN ELSE Rat(x.n * y.d + y.n * x.d, x.d * y.d)
RSub(x, y) == IF IsNaN(x) \/ IsNaN(y) THEN NaN ELSE Rat(x.n * y.d - y.n * x.d, x.d * y.d)
RMul(x, y) == IF IsNaN(x) \/ IsNaN(y) THEN NaN ELSE Rat(x.n * y.n, x.d * y.d)
\* x / y for y # 0 (every division of the script is guarded, but for the one in
\* calculateCoefficientOfVariationScore, which is modelled apart)
RDiv(x, y) == IF IsNaN(x) \/ IsNaN(y) THEN NaN ELSE Rat(x.n * y.d, x.d * y.n)
RAbs(x) == [n |-> IAbs(x.n), d |-> x.d]
\* comparisons: every comparison with NaN is false, but for !=, which is true
RLt(x, y) == ~IsNaN(x) /\ ~IsNaN(y) /\ x.n * y.d < y.n * x.d
RLe(x, y) == ~IsNaN(x) /\ ~IsNaN(y) /\ x.n * y.d <= y.n * x.d
REq(x, y) == ~IsNaN(x) /\ ~IsNaN(y) /\ x.n * y.d = y.n * x.d
RNe(x, y) == ~REq(x, y)
RGe(x, y) == RLe(y, x)
RGt(x, y) == RLt(y, x)

\* math.ceil / np.ceil, math.floor and np.round (half to even) of a rational
CeilDiv(n, d) == -((-n) \div d)
RCeil(x) == CeilDiv(x.n, x.d)
RFloor(x) == x.n \div x.d
RRound(x) ==
    LET f == x.n \div x.d
        r == 2 * (x.n - f * x.d)
    IN  IF r < x.d THEN f
        ELSE IF r > x.d THEN f + 1
        ELSE IF f % 2 = 0 THEN f ELSE f + 1

\* np.ceil(x * 1000) / 1000 and np.round(x * 1000) / 1000
Ceil3(x) == IF IsNaN(x) THEN NaN ELSE Rat(RCeil(RMul(x, FromInt(1000))), 1000)
Round3(x) == IF IsNaN(x) THEN NaN ELSE Rat(RRound(RMul(x, FromInt(1000))), 1000)

\* int(x) and math.floor(x) of a non-negative timestamp in ticks, in seconds
IntOf(x) == x \div Res

\* sorted(): ascending
Sorted(s) == SortSeq(s, LAMBDA a, b: a < b)
RSorted(s) == SortSeq(s, LAMBDA a, b: RLt(a, b))
ToRat(s) == [j \in DOMAIN s |-> FromInt(s[j])]

\* np.median of a sorted sequence of rationals: NaN for an empty one
Median(s) ==
    LET n == Len(s)
    IN  IF n = 0 THEN NaN
        ELSE IF n % 2 = 1 THEN s[(n + 1) \div 2]
        ELSE RDiv(RAdd(s[n \div 2], s[n \div 2 + 1]), FromInt(2))

IsAscending(s) == \A j \in 1..(Len(s) - 1): s[j] <= s[j + 1]

Range(s) == {s[j] : j \in DOMAIN s}

\* the sum of s[lo..hi]
RECURSIVE SumRange(_, _, _)
SumRange(s, lo, hi) ==
    IF lo > hi THEN 0
    ELSE IF lo = hi THEN s[lo]
    ELSE SumRange(s, lo, (lo + hi) \div 2) + SumRange(s, (lo + hi) \div 2 + 1, hi)
SumSeq(s) == SumRange(s, 1, Len(s))

\* all sequences over S of a length in lo..hi
SeqsOf(S, lo, hi) == UNION {[1..n -> S] : n \in lo..hi}

----------------------------------------------------------------------------
(* calculateDistinctCounts *)

NoDistinct == [exit |-> "", distinctNumbers |-> <<>>, countsArray |-> <<>>, mode |-> 0, maxCount |-> 0]

\* the scan that collects the distinct numbers (lines 575-594)
RECURSIVE DistinctScan(_, _, _)
DistinctScan(sortedIn, j, acc) ==
    IF j > Len(sortedIn) THEN acc
    ELSE LET currentNumber == sortedIn[j]
             d == IF acc.lastNumber # currentNumber
                  THEN Append(acc.distinctNumbers, currentNumber)
                  ELSE acc.distinctNumbers
             c == IF currentNumber \in DOMAIN acc.countsMap
                  THEN [acc.countsMap EXCEPT ![currentNumber] = @ + 1]
                  ELSE acc.countsMap @@ (currentNumber :> 1)
             nxt == [distinctNumbers |-> d, countsMap |-> c, lastNumber |-> currentNumber]
         IN  IF Len(nxt.distinctNumbers) > 0 THEN DistinctScan(sortedIn, j + 1, nxt) ELSE nxt

\* whether a later count replaces the mode (line 605)
ModeReplacedLastWins(count, maxCount) == count >= maxCount
ModeReplaced(count, maxCount) == count > maxCount

\* the scan that fills countsArray and finds the mode (lines 596-607)
RECURSIVE ModeScan(_, _, _, _)
ModeScan(distinctNumbers, countsMap, j, acc) ==
    IF j > Len(distinctNumbers) THEN acc
    ELSE LET number == distinctNumbers[j]
             count == countsMap[number]
             hit == ModeReplaced(count, acc.maxCount)
             nxt == [countsArray |-> Append(acc.countsArray, count),
                     mode |-> IF hit THEN number ELSE acc.mode,
                     maxCount |-> IF hit THEN count ELSE acc.maxCount]
         IN  IF nxt.maxCount > 0 THEN ModeScan(distinctNumbers, countsMap, j + 1, nxt) ELSE nxt

calculateDistinctCounts(dataIn) ==
    IF Len(dataIn) < 2
    THEN [NoDistinct EXCEPT !.exit = "not enough items in sorted data to calculate distinct counts"]
    ELSE LET sortedIn == Sorted(dataIn)
             first == sortedIn[1]
             scan == DistinctScan(sortedIn, 2,
                        [distinctNumbers |-> <<first>>, countsMap |-> (first :> 1),
                         lastNumber |-> first])
             m == ModeScan(scan.distinctNumbers, scan.countsMap, 1,
                        [countsArray |-> <<>>, mode |-> scan.distinctNumbers[1],
                         maxCount |-> scan.countsMap[scan.distinctNumbers[1]]])
         IN  [exit |-> "", distinctNumbers |-> scan.distinctNumbers,
              countsArray |-> m.countsArray, mode |-> m.mode, maxCount |-> m.maxCount]

----------------------------------------------------------------------------
(* The frames a specification does not use stay as constructed *)

NoHist == [freqList |-> <<>>, freqCount |-> <<>>, totalBars |-> 0, longestRun |-> 0]

AnalyzeIdle ==
    /\ tsData = <<>> /\ dsData = <<>> /\ minTs = 0 /\ maxTs = 0
    /\ sortedTsData = <<>> /\ sortedDsData = <<>>
    /\ tsScore = NaN /\ dsScore = NaN /\ histScore = NaN /\ durScore = NaN /\ score = NaN
    /\ hist = NoHist /\ durArgs = <<>> /\ exitCode = -1 /\ exitMsg = "" /\ calls = <<>>

HistIdle ==
    /\ bucketDivs = <<>> /\ sortedData = <<>> /\ i = 0 /\ bucket = 0
    /\ freqList = <<>> /\ k = 0

SniIdle ==
    /\ uids = <<>> /\ minTsStartOfHour = 0 /\ fqdnField = "" /\ linesRead = <<>>

----------------------------------------------------------------------------
(* calculateDistinctCounts called on every short sequence, in any order *)

MaxDistinctLen == 6
DistinctVals == 1..3

InitDistinct ==
    /\ pc = "call"
    /\ arg \in SeqsOf(DistinctVals, 0, MaxDistinctLen)
    /\ res = NoDistinct
    /\ AnalyzeIdle /\ HistIdle /\ SniIdle

CallDistinctCounts ==
    /\ pc = "call"
    /\ res' = calculateDistinctCounts(arg)
    /\ pc' = "ret"
    /\ UNCHANGED <<arg, analyzeVars, histVars, sniVars>>

SpecDistinct == InitDistinct /\ [][CallDistinctCounts]_vars

Occurrences(s, v) == Cardinality({j \in DOMAIN s : s[j] = v})

\* C4: for a sequence of length >= 2 in any order, calculateDistinctCounts returns
\* the distinct values ascending without repetition, the aligned occurrence counts
\* (summing to the input length), and as mode the smallest of the values with the
\* greatest count, with that count; [1,1,2,3,3,3] gives ([1,2,3], [2,1,3], 3, 3).
C4_DistinctCounts ==
    (pc = "ret" /\ Len(arg) >= 2) =>
        LET d == res.distinctNumbers
            c == res.countsArray
        IN  /\ res.exit = ""
            /\ Range(d) = Range(arg)
            /\ \A j \in 1..(Len(d) - 1): d[j] < d[j + 1]
            /\ Len(c) = Len(d)
            /\ \A j \in DOMAIN d: c[j] = Occurrences(arg, d[j])
            /\ SumSeq(c) = Len(arg)
            /\ res.maxCount = Occurrences(arg, res.mode)
            /\ \A v \in Range(arg): Occurrences(arg, v) <= res.maxCount
            /\ \A v \in Range(arg): Occurrences(arg, v) = res.maxCount => res.mode <= v
            /\ (arg = <<1, 1, 2, 3, 3, 3>> =>
                    /\ d = <<1, 2, 3>> /\ c = <<2, 1, 3>>
                    /\ res.mode = 3 /\ res.maxCount = 3)

\* an unsorted input in which two values share the greatest count
C4_Witness ==
    /\ pc = "ret" /\ arg = <<3, 1, 2, 3, 1>>
    /\ res.mode = 1 /\ res.maxCount = 2 /\ res.distinctNumbers = <<1, 2, 3>>

----------------------------------------------------------------------------
(* getFrequencyCounts *)

\* Python's 0-based s[j]
At(s, j) == s[j + 1]

\* histModeSensitivity = 0.05 (line 56)
histModeSensitivity == Rat(5, 100)

\* how many items the run scan visits (line 418)
ScanLengthOnce(freqListLen) == freqListLen
ScanLength(freqListLen) == freqListLen * 2

\* freqCount, a dict, as the list of its [key, val] items in insertion order (the
\* order in which Python iterates it).  Lines 432-435: count one more under key b
DictIncrement(d, b) ==
    IF \E m \in DOMAIN d: d[m].key = b
    THEN [m \in DOMAIN d |-> IF d[m].key = b THEN [d[m] EXCEPT !.val = @ + 1] ELSE d[m]]
    ELSE Append(d, [key |-> b, val |-> 1])

\* one pass of the loop of lines 418-435, for index j
FrequencyStep(fl, bucketSize, acc, j) ==
    LET item == At(fl, j % Len(fl))
        b == RFloor(RMul(FromInt(RFloor(RDiv(FromInt(item), FromInt(bucketSize)))),
                         FromInt(bucketSize)))
    IN  [currentRun |-> IF item > 0 THEN acc.currentRun + 1 ELSE 0,
         longestRun |-> IF item > 0 \/ acc.currentRun <= acc.longestRun
                        THEN acc.longestRun ELSE acc.currentRun,
         freqCount |-> IF j < Len(fl) /\ item > 0
                       THEN DictIncrement(acc.freqCount, b)
                       ELSE acc.freqCount]

\* the passes lo..hi in order (split in halves, the first half evaluated before
\* the second is entered, to keep the evaluation shallow)
RECURSIVE FrequencyScan(_, _, _, _, _)
FrequencyScan(fl, bucketSize, acc, lo, hi) ==
    IF lo > hi THEN acc
    ELSE IF lo = hi THEN FrequencyStep(fl, bucketSize, acc, lo)
    ELSE LET mid == (lo + hi) \div 2
             left == FrequencyScan(fl, bucketSize, acc, lo, mid)
         IN  IF left.currentRun >= 0
             THEN FrequencyScan(fl, bucketSize, left, mid + 1, hi)
             ELSE left

\* the largest item, 0 for none above 0 (lines 400-408)
MaxOfSeq(s) == IF \A j \in DOMAIN s: s[j] <= 0 THEN 0
               ELSE CHOOSE m \in Range(s): \A j \in DOMAIN s: s[j] <= m

getFrequencyCounts(fl) ==
    LET largestConnCount == MaxOfSeq(fl)
        totalBars == Cardinality({j \in DOMAIN fl : fl[j] > 0})
        bucketSize == RCeil(RMul(FromInt(largestConnCount), histModeSensitivity))
        scan == FrequencyScan(fl, bucketSize,
                    [currentRun |-> 0, longestRun |-> 0, freqCount |-> <<>>],
                    0, ScanLength(Len(fl)) - 1)
        run == IMax(scan.currentRun, scan.longestRun)
    IN  [freqCount |-> scan.freqCount, totalBars |-> totalBars,
         longestRun |-> IF run > Len(fl) THEN Len(fl) ELSE run]

----------------------------------------------------------------------------
(* getFrequencyCounts called on every short frequency list *)

MaxFreqLen == 6
FreqVals == 0..2

InitFreq ==
    /\ pc = "call"
    /\ arg \in SeqsOf(FreqVals, 0, MaxFreqLen)
    /\ res = [freqCount |-> <<>>, totalBars |-> 0, longestRun |-> 0]
    /\ AnalyzeIdle /\ HistIdle /\ SniIdle

CallFrequencyCounts ==
    /\ pc = "call"
    /\ res' = getFrequencyCounts(arg)
    /\ pc' = "ret"
    /\ UNCHANGED <<arg, analyzeVars, histVars, sniVars>>

SpecFreq == InitFreq /\ [][CallFrequencyCounts]_vars

\* a run of L active buckets starts at bucket s (1-based), wrapping past the end
ActiveRunAt(fl, s, L) == \A t \in 0..(L - 1): fl[((s - 1 + t) % Len(fl)) + 1] > 0
CircularLongestRun(fl) ==
    LET runs == {L \in 0..Len(fl) : L = 0 \/ \E s \in DOMAIN fl: ActiveRunAt(fl, s, L)}
    IN  CHOOSE L \in runs: \A M \in runs: M <= L

\* C2: longestRun is the longest run of consecutive buckets with frequency > 0, the
\* last bucket being adjacent to the first; it never exceeds the number of buckets,
\* is that number when every bucket is active, and is 2 for [1,0,1,1,0,1].
C2_CircularLongestRun ==
    pc = "ret" =>
        /\ res.longestRun = CircularLongestRun(arg)
        /\ res.longestRun <= Len(arg)
        /\ ((\A j \in DOMAIN arg: arg[j] > 0) => res.longestRun = Len(arg))
        /\ (arg = <<1, 0, 1, 1, 0, 1>> => res.longestRun = 2)

\* a run that spans the wrap-around and is longer than any run found in order
C2_Witness ==
    /\ pc = "ret" /\ arg = <<1, 1, 0, 1, 0, 1>>
    /\ res.longestRun = 3

----------------------------------------------------------------------------
(* createBuckets and createHistogram *)

\* createBuckets(start, stop, size), start and stop in ticks
createBuckets(start, stop, size) ==
    LET total == size + 1
        step == (IntOf(stop) - IntOf(start)) \div (total - 1)
    IN  [j \in 1..total |->
            IF j = total THEN IntOf(stop) * Res
            ELSE start + (j - 1) * step * Res]

\* the bucket the cursor moves to for an entry that is not below `bucket`
\* (lines 381-386): the first j after i with entry < bucketDivs[j+1], else i
NextBucket(divs, cur, entry) ==
    LET found == {j \in (cur + 1)..(Len(divs) - 2) : entry < At(divs, j + 1)}
    IN  IF found = {} THEN cur ELSE CHOOSE j \in found: \A m \in found: j <= m

\* a pass that leaves out an entry for which the search finds no bucket
HistogramEntrySkipsOverflow(divs, st, entry) ==
    IF entry < st.bucket
    THEN [st EXCEPT !.freqList[st.i + 1] = @ + 1]
    ELSE LET j == NextBucket(divs, st.i, entry)
         IN  IF j = st.i THEN st
             ELSE [i |-> j, bucket |-> At(divs, j + 1),
                   freqList |-> [st.freqList EXCEPT ![j + 1] = @ + 1]]

\* one pass of the loop over sortedData (lines 374-392)
HistogramEntry(divs, st, entry) ==
    IF entry < st.bucket
    THEN [st EXCEPT !.freqList[st.i + 1] = @ + 1]
    ELSE LET j == NextBucket(divs, st.i, entry)
         IN  [i |-> j,
              bucket |-> IF j = st.i THEN st.bucket ELSE At(divs, j + 1),
              freqList |-> [st.freqList EXCEPT ![j + 1] = @ + 1]]

HistogramStart(divs) ==
    [i |-> 0, bucket |-> At(divs, 1), freqList |-> [j \in 1..(Len(divs) - 1) |-> 0]]

RECURSIVE HistogramLoop(_, _, _)
HistogramLoop(divs, st, data) ==
    IF data = <<>> THEN st
    ELSE LET nxt == HistogramEntry(divs, st, Head(data))
         IN  IF nxt.i >= 0 THEN HistogramLoop(divs, nxt, Tail(data)) ELSE nxt

createHistogram(divs, data) ==
    LET st == HistogramLoop(divs, HistogramStart(divs), data)
    IN  [freqList |-> st.freqList] @@ getFrequencyCounts(st.freqList)

----------------------------------------------------------------------------
(* createHistogram run entry by entry over the buckets of a small window *)

MaxHistLen == 3

\* windows (start, stop) in ticks: a step of one second; the same with a stop past
\* the second; a last bucket longer than the step; a step of zero
HistWindows ==
    {<<0, BucketCount * Res>>, <<0, BucketCount * Res + 1>>,
     <<Res, (BucketCount + 6) * Res>>, <<0, 10 * Res>>}

\* timestamps around the first boundaries and around the last two
HistTsVals(divs) ==
    ((divs[1] - 1)..(divs[1] + 2 * Res))
    \cup {divs[b] + d : b \in {BucketCount, BucketCount + 1}, d \in {-1, 0, 1}}

\* the ascending sequences over S of a length up to n (sortedData is sorted by
\* analyze, line 192)
RECURSIVE AscendingSeqsOf(_, _)
AscendingSeqsOf(S, n) ==
    IF n = 0 THEN {<<>>}
    ELSE LET shorter == AscendingSeqsOf(S, n - 1)
         IN  shorter \cup
             UNION {{Append(s, x) : x \in {y \in S : s = <<>> \/ s[Len(s)] <= y}} :
                        s \in {t \in shorter : Len(t) = n - 1}}

InitHist ==
    /\ pc = "call"
    /\ \E w \in HistWindows:
         /\ bucketDivs = createBuckets(w[1], w[2], BucketCount)
         /\ sortedData \in AscendingSeqsOf(HistTsVals(bucketDivs), MaxHistLen)
    /\ i = 0 /\ bucket = 0 /\ freqList = <<>> /\ k = 0
    /\ arg = <<>> /\ res = NoHist
    /\ AnalyzeIdle /\ SniIdle

\* lines 367-371
createHistogramEnter ==
    /\ pc = "call"
    /\ LET st == HistogramStart(bucketDivs)
       IN  i' = st.i /\ bucket' = st.bucket /\ freqList' = st.freqList
    /\ k' = 0
    /\ pc' = "loop"
    /\ UNCHANGED <<bucketDivs, sortedData, fnVars, analyzeVars, sniVars>>

\* lines 374-392, for the entry at index k
createHistogramEntry ==
    /\ pc = "loop"
    /\ k < Len(sortedData)
    /\ LET st == HistogramEntry(bucketDivs,
                    [i |-> i, bucket |-> bucket, freqList |-> freqList], At(sortedData, k))
       IN  i' = st.i /\ bucket' = st.bucket /\ freqList' = st.freqList
    /\ k' = k + 1
    /\ UNCHANGED <<pc, bucketDivs, sortedData, fnVars, analyzeVars, sniVars>>

\* lines 394-395
createHistogramReturn ==
    /\ pc = "loop"
    /\ k = Len(sortedData)
    /\ res' = [freqList |-> freqList] @@ getFrequencyCounts(freqList)
    /\ pc' = "ret"
    /\ UNCHANGED <<arg, bucketDivs, sortedData, i, bucket, freqList, k, analyzeVars, sniVars>>

NextHist == createHistogramEnter \/ createHistogramEntry \/ createHistogramReturn
SpecHist == InitHist /\ [][NextHist]_vars

InWindow(divs, data) ==
    \A j \in DOMAIN data: divs[1] <= data[j] /\ data[j] <= divs[Len(divs)]
CountIn(data, lo, hi, closed) ==
    Cardinality({j \in DOMAIN data : lo <= data[j] /\ (data[j] < hi \/ (closed /\ data[j] = hi))})

\* C1: with every timestamp in [boundary[0], boundary[24]], bucket k in 0..22 holds
\* the number of timestamps t with boundary[k] <= t < boundary[k+1], and bucket 23
\* the number with boundary[23] <= t <= boundary[24]: a timestamp equal to the final
\* boundary is counted in the final bucket, wherever the cursor was.
C1_BucketFrequencies ==
    (pc = "ret" /\ InWindow(bucketDivs, sortedData)) =>
        \A b \in 0..(BucketCount - 1):
            At(res.freqList, b) =
                CountIn(sortedData, At(bucketDivs, b), At(bucketDivs, b + 1), b = BucketCount - 1)

\* the buckets whose frequency a step raised by one, the others being unchanged
RaisedByOne(before, after) ==
    {b \in DOMAIN before : after[b] = before[b] + 1}
CountedOnce(before, after) ==
    /\ Cardinality(RaisedByOne(before, after)) = 1
    /\ \A b \in DOMAIN before: b \notin RaisedByOne(before, after) => after[b] = before[b]

\* the mean frequency, the divisor of line 304 (lines 290-295)
freqMean(fl) == RDiv(FromInt(SumSeq(fl)), FromInt(Len(fl)))

\* C12: for every ascending timestamp sequence, timestamps below the first or at or
\* above the last boundary included, every pass of createHistogram's loop counts
\* its timestamp in exactly one bucket and never moves the cursor back, so the
\* frequencies sum to the number of timestamps read; for a non-empty sequence the
\* returned histogram has at least one active bucket and a mean frequency above 0.
C12_CountedOnceCursorForward ==
    /\ [](pc \in {"loop", "ret"} => SumSeq(freqList) = k)
    /\ [](pc = "ret" =>
            /\ SumSeq(res.freqList) = Len(sortedData)
            /\ sortedData # <<>> =>
                  /\ res.totalBars >= 1
                  /\ RGt(freqMean(res.freqList), FromInt(0)))
    /\ [][/\ i' >= i
          /\ (pc = "loop" /\ k' = k + 1) => CountedOnce(freqList, freqList')]_vars

\* a timestamp below the first boundary, one that moves the cursor to a late
\* bucket and one above the last boundary, each counted once
C12_Witness ==
    /\ pc = "ret" /\ Len(sortedData) = 3
    /\ sortedData[1] < bucketDivs[1]
    /\ sortedData[3] > bucketDivs[Len(bucketDivs)]
    /\ i > 0
    /\ SumSeq(res.freqList) = 3
    /\ At(res.freqList, 0) = 1 /\ At(res.freqList, i) = 2
    /\ res.totalBars = 2

----------------------------------------------------------------------------
(* calculateBowleySkewness and calculateMedianAbsoluteDeviation *)

\* Python's s[a:b] and s[a:]
Slice(s, a, b) == SubSeq(s, a + 1, b)
SliceFrom(s, a) == SubSeq(s, a + 1, Len(s))

\* where the lower half ends (lines 453-457)
LowerCutoff(inputLength) ==
    IF inputLength % 2 = 0 THEN inputLength \div 2 ELSE (inputLength - 1) \div 2

\* where the upper half starts (lines 453-458)
UpperCutoffKeepsMiddle(inputLength) == LowerCutoff(inputLength)
UpperCutoff(inputLength) ==
    IF inputLength % 2 = 0 THEN inputLength \div 2 ELSE LowerCutoff(inputLength) + 1

calculateBowleySkewness(data) ==
    IF Len(data) = 0
    THEN [exit |-> "input length for calculating quartiles is 0", skewness |-> NaN, score |-> NaN]
    ELSE LET cutoff1 == LowerCutoff(Len(data))
             cutoff2 == UpperCutoff(Len(data))
             q1 == Median(RSorted(ToRat(Slice(data, 0, cutoff1))))
             q2 == Median(RSorted(ToRat(data)))
             q3 == Median(RSorted(ToRat(SliceFrom(data, cutoff2))))
             num == RSub(RAdd(q1, q3), RMul(FromInt(2), q2))
             den == RSub(q3, q1)
             skewness == IF RGe(den, FromInt(MinQuartileSpread)) /\ RNe(q2, q1) /\ RNe(q2, q3)
                         THEN RDiv(num, den)
                         ELSE FromInt(0)
         IN  [exit |-> "", skewness |-> skewness, score |-> RSub(FromInt(1), RAbs(skewness))]

calculateMedianAbsoluteDeviation(data, defaultScore) ==
    IF Len(data) = 0
    THEN [exit |-> "input slice for madm must not be empty", mad |-> NaN, score |-> NaN]
    ELSE LET dataSorted == RSorted(ToRat(data))
             median == Median(dataSorted)
             deviations == [j \in DOMAIN dataSorted |-> RAbs(RSub(dataSorted[j], median))]
             mad == Median(RSorted(deviations))
             raw == IF RGe(median, FromInt(1))
                    THEN RDiv(RSub(median, mad), median)
                    ELSE FromInt(defaultScore)
         IN  [exit |-> "", mad |-> mad,
              score |-> IF RLt(raw, FromInt(0)) \/ IsNaN(raw) THEN FromInt(0) ELSE raw]

----------------------------------------------------------------------------
(* calculateBowleySkewness called on every short ascending sequence *)

MaxBowleyLen == 5
BowleyVals == {0, 1, 2, 5, 12, 13, 25}

InitBowley ==
    /\ pc = "call"
    /\ arg \in {s \in SeqsOf(BowleyVals, 0, MaxBowleyLen) : IsAscending(s)}
    /\ res = [exit |-> "", skewness |-> NaN, score |-> NaN]
    /\ AnalyzeIdle /\ HistIdle /\ SniIdle

CallBowleySkewness ==
    /\ pc = "call"
    /\ res' = calculateBowleySkewness(arg)
    /\ pc' = "ret"
    /\ UNCHANGED <<arg, analyzeVars, histVars, sniVars>>

SpecBowley == InitBowley /\ [][CallBowleySkewness]_vars

\* the quartiles as the claim words them: the medians of the first floor(n/2)
\* elements, of the whole sequence and of the last floor(n/2) elements
QuartileLow(s) == Median(ToRat(SubSeq(s, 1, Len(s) \div 2)))
QuartileMid(s) == Median(ToRat(s))
QuartileHigh(s) == Median(ToRat(SubSeq(s, Len(s) - (Len(s) \div 2) + 1, Len(s))))
QuartilesSpread(s) ==
    /\ RGe(RSub(QuartileHigh(s), QuartileLow(s)), FromInt(10))
    /\ RNe(QuartileMid(s), QuartileLow(s))
    /\ RNe(QuartileMid(s), QuartileHigh(s))

\* C9: for an ascending sequence of length n >= 1, skewness is
\* (q1 + q3 - 2*q2)/(q3 - q1) exactly when q3 - q1 >= 10, q2 # q1 and q2 # q3, and 0
\* otherwise (for n = 1 both halves are empty, the spread is NaN and not >= 10);
\* score = 1 - |skewness|; an empty sequence is a fatal error.
C9_BowleySkewness ==
    pc = "ret" =>
        IF Len(arg) = 0 THEN res.exit # ""
        ELSE /\ res.exit = ""
             /\ IF QuartilesSpread(arg)
                THEN REq(RMul(res.skewness, RSub(QuartileHigh(arg), QuartileLow(arg))),
                         RSub(RAdd(QuartileLow(arg), QuartileHigh(arg)),
                              RMul(FromInt(2), QuartileMid(arg))))
                ELSE res.skewness = FromInt(0)
             /\ REq(res.score, RSub(FromInt(1), RAbs(res.skewness)))

\* an odd-length sequence whose middle element decides the skewness
C9_Witness ==
    /\ pc = "ret" /\ arg = <<0, 1, 2, 12, 13>>
    /\ res.skewness = Rat(3, 4) /\ res.score = Rat(1, 4)

----------------------------------------------------------------------------
(* getDurationScore *)

NoDuration == [exit |-> "", coverage |-> FromInt(0), consistency |-> FromInt(0), score |-> FromInt(0)]

\* whether the candidate has enough active buckets to be assessed (line 243)
DurationAssessedAbove(bars, minHours) == bars > minHours
DurationAssessed(bars, minHours) == bars >= minHours

\* Python's max(a, b): b only when it is greater
RMax(a, b) == IF RGt(b, a) THEN b ELSE a
\* "if x > 1: x = 1"
ClampSkipped(x) == x
ClampToOne(x) == IF RGt(x, FromInt(1)) THEN FromInt(1) ELSE x

\* getDurationScore, the two thresholds it reads from the module's globals given
\* as minHours and idealHours
getDurationScoreWith(minHours, idealHours, dmin, dmax, histMin, histMax, bars, longestConsecutiveRun) ==
    IF minHours < 1 \/ idealHours < 1
    THEN [NoDuration EXCEPT !.exit = "invalid duration score thresholds"]
    ELSE IF dmax <= dmin
    THEN [NoDuration EXCEPT !.exit = "max is less than or equal to min"]
    ELSE IF histMax <= histMin
    THEN [NoDuration EXCEPT !.exit = "hist max is less than or equal to hist min"]
    ELSE IF DurationAssessed(bars, minHours)
    THEN LET coverage == ClampToOne(Ceil3(RDiv(FromInt(histMax - histMin), FromInt(dmax - dmin))))
             consistency == ClampToOne(Ceil3(RDiv(FromInt(longestConsecutiveRun), FromInt(idealHours))))
         IN  [exit |-> "", coverage |-> coverage, consistency |-> consistency,
              score |-> RMax(coverage, consistency)]
    ELSE NoDuration

getDurationScore(dmin, dmax, histMin, histMax, bars, longestConsecutiveRun) ==
    getDurationScoreWith(durMinHours, consistencyIdealHours, dmin, dmax, histMin, histMax,
                         bars, longestConsecutiveRun)

----------------------------------------------------------------------------
(* getDurationScore called on a grid of arguments and thresholds *)

\* (durMinHours, consistencyIdealHours): the values of lines 54-55, and others an
\* operator may set there, invalid ones among them
DurThresholds == {<<durMinHours, consistencyIdealHours>>, <<0, consistencyIdealHours>>,
                  <<durMinHours, 0>>, <<1, 1>>}
DurWindowVals == {0, 7, 10, 86400}
DurSpanVals == {0, 50, 43200, 100000}
DurBarVals == {0, 5, 6, 12, 24}
DurRunVals == {0, 1, 5, 7, 12, 24}

InitDur ==
    /\ pc = "call"
    /\ \E t \in DurThresholds, dmin \in DurWindowVals, dmax \in DurWindowVals,
          hmin \in DurSpanVals, hmax \in DurSpanVals, bars \in DurBarVals, run \in DurRunVals:
         arg = [minHours |-> t[1], idealHours |-> t[2], dmin |-> dmin, dmax |-> dmax,
                histMin |-> hmin, histMax |-> hmax, totalBars |-> bars, longestRun |-> run]
    /\ res = NoDuration
    /\ AnalyzeIdle /\ HistIdle /\ SniIdle

CallDurationScore ==
    /\ pc = "call"
    /\ res' = getDurationScoreWith(arg.minHours, arg.idealHours, arg.dmin, arg.dmax,
                                   arg.histMin, arg.histMax, arg.totalBars, arg.longestRun)
    /\ pc' = "ret"
    /\ UNCHANGED <<arg, analyzeVars, histVars, sniVars>>

SpecDur == InitDur /\ [][CallDurationScore]_vars

DurInvalid(a) ==
    a.minHours < 1 \/ a.idealHours < 1 \/ a.dmax <= a.dmin \/ a.histMax <= a.histMin
\* min(ceil(1000 * num / den) / 1000, 1), in thousandths
CappedThousandths(num, den) == IMin(CeilDiv(1000 * num, den), 1000)

\* C7: getDurationScore ends in a fatal validation error exactly when a threshold
\* is < 1 or dmax <= dmin or histMax <= histMin; otherwise it returns three zeros
\* when totalBars < durMinHours, and else coverage =
\* min(ceil(1000*(histMax-histMin)/(dmax-dmin))/1000, 1), consistency =
\* min(ceil(1000*longestRun/consistencyIdealHours)/1000, 1), score = their maximum;
\* (0, 86400, 0, 43200, 12, 12) gives (0.5, 1.0, 1.0).
C7_DurationScore ==
    pc = "ret" =>
        /\ (res.exit # "") = DurInvalid(arg)
        /\ DurInvalid(arg) => res = [NoDuration EXCEPT !.exit = res.exit]
        /\ (~DurInvalid(arg) /\ arg.totalBars < arg.minHours) => res = NoDuration
        /\ (~DurInvalid(arg) /\ arg.totalBars >= arg.minHours) =>
              LET cov == CappedThousandths(arg.histMax - arg.histMin, arg.dmax - arg.dmin)
                  con == CappedThousandths(arg.longestRun, arg.idealHours)
              IN  /\ res.coverage = Rat(cov, 1000)
                  /\ res.consistency = Rat(con, 1000)
                  /\ res.score = Rat(IMax(cov, con), 1000)
        /\ (arg = [minHours |-> durMinHours, idealHours |-> consistencyIdealHours,
                   dmin |-> 0, dmax |-> 86400, histMin |-> 0, histMax |-> 43200,
                   totalBars |-> 12, longestRun |-> 12]) =>
              /\ res.coverage = Rat(1, 2) /\ res.consistency = FromInt(1)
              /\ res.score = FromInt(1)

\* exactly durMinHours active buckets: assessed, the coverage rounded up
C7_Witness ==
    /\ pc = "ret"
    /\ arg = [minHours |-> durMinHours, idealHours |-> consistencyIdealHours,
              dmin |-> 7, dmax |-> 86400, histMin |-> 50, histMax |-> 43200,
              totalBars |-> 6, longestRun |-> 5]
    /\ res.coverage = Rat(500, 1000) /\ res.consistency = Rat(417, 1000)
    /\ res.score = Rat(500, 1000)

----------------------------------------------------------------------------
(* calculateBimodalFitScore *)

\* one pass of the loop of lines 324-329
BimodalStepNoShift(acc, val) ==
    IF val > acc.largest THEN [acc EXCEPT !.largest = val]
    ELSE IF val > acc.secondLargest THEN [acc EXCEPT !.secondLargest = val]
    ELSE acc
BimodalStep(acc, val) ==
    IF val > acc.largest THEN [largest |-> val, secondLargest |-> acc.largest]
    ELSE IF val > acc.secondLargest THEN [acc EXCEPT !.secondLargest = val]
    ELSE acc

RECURSIVE BimodalLoop(_, _)
BimodalLoop(acc, items) ==
    IF items = <<>> THEN acc
    ELSE LET nxt == BimodalStep(acc, Head(items).val)
         IN  IF nxt.largest >= 0 THEN BimodalLoop(nxt, Tail(items)) ELSE nxt

calculateBimodalFitScore(freqCount, bars) ==
    LET top == BimodalLoop([largest |-> 0, secondLargest |-> 0], freqCount)
        bimodalFit == IF bars >= bimodalMinHours
                      THEN RDiv(FromInt(top.largest + top.secondLargest),
                                FromInt(IMax(bars - bimodalOutlierRemoval, 1)))
                      ELSE FromInt(0)
    IN  ClampToOne(Ceil3(bimodalFit))

----------------------------------------------------------------------------
(* calculateBimodalFitScore called on small maps in every iteration order *)

MaxBimodalKeys == 3
BimodalVals == {1, 3, 5, 6}
BimodalBars == {0, 1, 2, 10, 11, 12, 13, 17, 24}

\* the dicts of at most MaxBimodalKeys keys, each in every insertion order
BimodalDicts ==
    {d \in SeqsOf([key : 1..MaxBimodalKeys, val : BimodalVals], 0, MaxBimodalKeys) :
        \A a, b \in DOMAIN d: a # b => d[a].key # d[b].key}

InitBimodal ==
    /\ pc = "call"
    /\ \E d \in BimodalDicts, bars \in BimodalBars: arg = [freqCount |-> d, totalBars |-> bars]
    /\ res = NaN
    /\ AnalyzeIdle /\ HistIdle /\ SniIdle

CallBimodalFitScore ==
    /\ pc = "call"
    /\ res' = calculateBimodalFitScore(arg.freqCount, arg.totalBars)
    /\ pc' = "ret"
    /\ UNCHANGED <<arg, analyzeVars, histVars, sniVars>>

SpecBimodal == InitBimodal /\ [][CallBimodalFitScore]_vars

\* the two greatest values of a dict, counted with multiplicity (0 for a missing one)
Greatest(d) ==
    IF d = <<>> THEN 0 ELSE CHOOSE v \in {d[m].val : m \in DOMAIN d}: \A m \in DOMAIN d: d[m].val <= v
SecondGreatest(d) ==
    IF Len(d) < 2 THEN 0
    ELSE LET a == CHOOSE m \in DOMAIN d: d[m].val = Greatest(d)
             rest == {d[m].val : m \in DOMAIN d \ {a}}
         IN  CHOOSE v \in rest: \A w \in rest: w <= v
\* the same items in every order
Reorderings(d) == {[m \in DOMAIN d |-> d[p[m]]] : p \in Permutations(DOMAIN d)}

\* C8: the score is 0 when totalBars < 11, else
\* min(ceil(1000*(a+b)/max(totalBars-1, 1))/1000, 1) for the two greatest values a, b
\* of the map counted with multiplicity, whatever the order the map is iterated in.
C8_BimodalFitScore ==
    pc = "ret" =>
        /\ arg.totalBars < bimodalMinHours => res = FromInt(0)
        /\ arg.totalBars >= bimodalMinHours =>
              res = Rat(CappedThousandths(Greatest(arg.freqCount) + SecondGreatest(arg.freqCount),
                                          IMax(arg.totalBars - 1, 1)), 1000)
        /\ \A e \in Reorderings(arg.freqCount):
              calculateBimodalFitScore(e, arg.totalBars) = res

\* two entries share the greatest value and a smaller one is iterated first
C8_Witness ==
    /\ pc = "ret" /\ arg.totalBars = 17
    /\ arg.freqCount = <<[key |-> 2, val |-> 5], [key |-> 1, val |-> 6], [key |-> 3, val |-> 6]>>
    /\ res = Rat(750, 1000)

----------------------------------------------------------------------------
(* calculateCoefficientOfVariationScore and getTsHistogramScore *)

\* the integer square root of a, searched in lo..hi
RECURSIVE ISqrtIn(_, _, _)
ISqrtIn(a, lo, hi) ==
    IF lo >= hi THEN lo
    ELSE LET mid == (lo + hi + 1) \div 2
         IN  IF mid * mid <= a THEN ISqrtIn(a, mid, hi) ELSE ISqrtIn(a, lo, mid - 1)

\* np.round((1 - cv) * 1000) for cv = sqrt(d) / t <= 1, from twice the value:
\* 2000 * cv lies in [q, q + 1), and is q when q * q * t * t = 4000000 * d
RoundedCvThousandths(d, t) ==
    LET q == ISqrtIn((4000000 * d) \div (t * t), 0, 2000)
        exact == q * q * t * t = 4000000 * d
        twice == 2000 - q
    IN  IF exact
        THEN RRound(Rat(twice, 2))
        ELSE IF (twice - 1) % 2 = 0 THEN (twice - 1) \div 2 ELSE twice \div 2

\* with n buckets of total t and sum of squares s2: mean = t/n, sd = sqrt(n*s2 - t*t)/n
\* and cv = sd/|mean| = sqrt(n*s2 - t*t)/t; 0/0 = NaN when no bucket holds anything
calculateCoefficientOfVariationScore(fl) ==
    LET n == Len(fl)
        t == SumSeq(fl)
        s2 == SumSeq([j \in DOMAIN fl |-> fl[j] * fl[j]])
        d == n * s2 - t * t
    IN  IF t = 0 THEN NaN
        ELSE IF d > t * t THEN FromInt(0)
        ELSE ClampToOne(Rat(RoundedCvThousandths(d, t), 1000))

getTsHistogramScore(start, end, data) ==
    LET divs == createBuckets(start, end, BucketCount)
        h == createHistogram(divs, data)
        cvScore == calculateCoefficientOfVariationScore(h.freqList)
        bimodalFitScore == calculateBimodalFitScore(h.freqCount, h.totalBars)
    IN  [bucketDivs |-> divs, freqList |-> h.freqList, freqCount |-> h.freqCount,
         totalBars |-> h.totalBars, longestRun |-> h.longestRun,
         histScore |-> RMax(cvScore, bimodalFitScore)]

----------------------------------------------------------------------------
(* getTsScore and getDsScore *)

Call(fn, n) == [fn |-> fn, n |-> n]

\* the first index at which a delta is above 0, else 0 (lines 537-542)
NonZeroIndex(deltas) ==
    LET pos == {j \in 0..(Len(deltas) - 1) : At(deltas, j) > 0}
    IN  IF pos = {} THEN 0 ELSE CHOOSE j \in pos: \A m \in pos: j <= m

\* getTsScore; `entered` lists the scorers it entered, with the length of their input
getTsScore(data, tsLength) ==
    LET deltaTimesFull == Sorted([j \in 1..tsLength |-> IntOf(data[j + 1]) - IntOf(data[j])])
        dc == calculateDistinctCounts(deltaTimesFull)
        deltaTimes == SliceFrom(deltaTimesFull, NonZeroIndex(deltaTimesFull))
        skew == calculateBowleySkewness(deltaTimes)
        madm == calculateMedianAbsoluteDeviation(deltaTimes, 1)
        c1 == <<Call("calculateDistinctCounts", Len(deltaTimesFull))>>
        c2 == Append(c1, Call("calculateBowleySkewness", Len(deltaTimes)))
        c3 == Append(c2, Call("calculateMedianAbsoluteDeviation", Len(deltaTimes)))
    IN  IF dc.exit # "" THEN [exit |-> dc.exit, tsScore |-> NaN, entered |-> c1]
        ELSE IF skew.exit # "" THEN [exit |-> skew.exit, tsScore |-> NaN, entered |-> c2]
        ELSE IF madm.exit # "" THEN [exit |-> madm.exit, tsScore |-> NaN, entered |-> c3]
        ELSE [exit |-> "", entered |-> c3,
              tsScore |-> Ceil3(RDiv(RAdd(skew.score, madm.score), FromInt(2)))]

getDsScore(data, mode) ==
    LET skew == calculateBowleySkewness(data)
        madm == calculateMedianAbsoluteDeviation(data, 0)
        c1 == <<Call("calculateBowleySkewness", Len(data))>>
        c2 == Append(c1, Call("calculateMedianAbsoluteDeviation", Len(data)))
    IN  IF skew.exit # "" THEN [exit |-> skew.exit, dsScore |-> NaN, entered |-> c1]
        ELSE IF madm.exit # "" THEN [exit |-> madm.exit, dsScore |-> NaN, entered |-> c2]
        ELSE [exit |-> "", entered |-> c2,
              dsScore |-> Round3(RDiv(RAdd(skew.score, madm.score), FromInt(2)))]

----------------------------------------------------------------------------
(* analyze, one action per call it makes *)

NoCandidateMsg == "could not find connection pair in logs, are you sure you're looking at the right dataset?"

\* lines 181-193: the empty-series exit, else the sorted copies
analyzeEnter ==
    /\ pc = "analyze"
    /\ IF Len(tsData) = 0 \/ Len(dsData) = 0
       THEN /\ exitCode' = 0 /\ exitMsg' = NoCandidateMsg /\ pc' = "exit"
            /\ UNCHANGED <<sortedTsData, sortedDsData>>
       ELSE /\ sortedTsData' = Sorted(tsData)
            /\ sortedDsData' = Sorted(dsData)
            /\ pc' = "distinct"
            /\ UNCHANGED <<exitCode, exitMsg>>
    /\ UNCHANGED <<tsData, dsData, minTs, maxTs, tsScore, dsScore, histScore, durScore,
                   score, hist, durArgs, calls, fnVars, histVars, sniVars>>

\* line 196
analyzeDistinctCounts ==
    /\ pc = "distinct"
    /\ calls' = Append(calls, Call("calculateDistinctCounts", Len(dsData)))
    /\ LET r == calculateDistinctCounts(dsData)
       IN  IF r.exit # ""
           THEN exitCode' = 1 /\ exitMsg' = r.exit /\ pc' = "exit"
           ELSE pc' = "tsScore" /\ UNCHANGED <<exitCode, exitMsg>>
    /\ UNCHANGED <<tsData, dsData, minTs, maxTs, sortedTsData, sortedDsData, tsScore,
                   dsScore, histScore, durScore, score, hist, durArgs, fnVars, histVars, sniVars>>

\* line 199, tsLength being len(tsData) - 1 (line 187)
analyzeTsScore ==
    /\ pc = "tsScore"
    /\ LET r == getTsScore(sortedTsData, Len(tsData) - 1)
       IN  /\ calls' = calls \o <<Call("getTsScore", Len(sortedTsData))>> \o r.entered
           /\ IF r.exit # ""
              THEN exitCode' = 1 /\ exitMsg' = r.exit /\ pc' = "exit" /\ UNCHANGED tsScore
              ELSE tsScore' = r.tsScore /\ pc' = "dsScore" /\ UNCHANGED <<exitCode, exitMsg>>
    /\ UNCHANGED <<tsData, dsData, minTs, maxTs, sortedTsData, sortedDsData,
                   dsScore, histScore, durScore, score, hist, durArgs, fnVars, histVars, sniVars>>

\* line 200
analyzeDsScore ==
    /\ pc = "dsScore"
    /\ LET r == getDsScore(sortedDsData, 0)
       IN  /\ calls' = calls \o <<Call("getDsScore", Len(sortedDsData))>> \o r.entered
           /\ IF r.exit # ""
              THEN exitCode' = 1 /\ exitMsg' = r.exit /\ pc' = "exit" /\ UNCHANGED dsScore
              ELSE dsScore' = r.dsScore /\ pc' = "histScore" /\ UNCHANGED <<exitCode, exitMsg>>
    /\ UNCHANGED <<tsData, dsData, minTs, maxTs, sortedTsData, sortedDsData, tsScore,
                   histScore, durScore, score, hist, durArgs, fnVars, histVars, sniVars>>

\* line 206, start and end being minTs and maxTs (lines 184-185)
analyzeHistogramScore ==
    /\ pc = "histScore"
    /\ calls' = Append(calls, Call("getTsHistogramScore", Len(sortedTsData)))
    /\ LET r == getTsHistogramScore(minTs, maxTs, sortedTsData)
       IN  /\ hist' = [freqList |-> r.freqList, freqCount |-> r.freqCount,
                       totalBars |-> r.totalBars, longestRun |-> r.longestRun]
           /\ histScore' = r.histScore
    /\ pc' = "durScore"
    /\ UNCHANGED <<tsData, dsData, minTs, maxTs, sortedTsData, sortedDsData, tsScore,
                   dsScore, durScore, score, durArgs, exitCode, exitMsg, fnVars, histVars, sniVars>>

\* the candidate span of line 207, in seconds: int() of the first and of the last
\* element of tsData
SpanHanded(ts, sortedTs) == [histMin |-> IntOf(ts[1]), histMax |-> IntOf(ts[Len(ts)])]

\* line 207; getDurationScore is handed the span in ticks, as the window is
analyzeDurationScore ==
    /\ pc = "durScore"
    /\ calls' = Append(calls, Call("getDurationScore", Len(tsData)))
    /\ durArgs' = SpanHanded(tsData, sortedTsData)
    /\ LET r == getDurationScore(minTs, maxTs, durArgs'.histMin * Res, durArgs'.histMax * Res,
                                 hist.totalBars, hist.longestRun)
       IN  IF r.exit # ""
           THEN exitCode' = 1 /\ exitMsg' = r.exit /\ pc' = "exit" /\ UNCHANGED durScore
           ELSE durScore' = r.score /\ pc' = "composite" /\ UNCHANGED <<exitCode, exitMsg>>
    /\ UNCHANGED <<tsData, dsData, minTs, maxTs, sortedTsData, sortedDsData, tsScore,
                   dsScore, histScore, score, hist, fnVars, histVars, sniVars>>

\* the weight of each of the four scores (lines 211-214)
Weight == Rat(25, 100)

\* lines 211-215
analyzeComposite ==
    /\ pc = "composite"
    /\ score' = Round3(RAdd(RAdd(RMul(tsScore, Weight), RMul(dsScore, Weight)),
                            RAdd(RMul(durScore, Weight), RMul(histScore, Weight))))
    /\ pc' = "done"
    /\ UNCHANGED <<tsData, dsData, minTs, maxTs, sortedTsData, sortedDsData, tsScore,
                   dsScore, histScore, durScore, hist, durArgs, exitCode, exitMsg, calls,
                   fnVars, histVars, sniVars>>

NextAnalyze ==
    \/ analyzeEnter \/ analyzeDistinctCounts \/ analyzeTsScore \/ analyzeDsScore
    \/ analyzeHistogramScore \/ analyzeDurationScore \/ analyzeComposite

----------------------------------------------------------------------------
(* analyze called on short series in every order and on longer beacons.  The   *)
(* order of tsData is the order of ingestion: getIPBeacon appends in the order *)
(* of the uid map, which is the order the conn records were read in, and       *)
(* getSNIBeacon appends the http records before the ssl records; neither is    *)
(* the order of the timestamps.  Both series always have the same length.      *)

\* beacons of up to MaxBeacon + 10 connections
MaxBeacon == 3

\* dataset windows (minTs, maxTs) in ticks: a bucket step of one second, and of two
\* with maxTs past the second
AnalyzeWindows == {<<2 * Res, 26 * Res>>, <<2 * Res, 50 * Res + 1>>}

\* short series: every sequence over these timestamps, in any order
ShortTs == {2 * Res, 2 * Res + 1, 3 * Res, 15 * Res, 26 * Res}

\* a beacon of c connections every p ticks from a on, the last `late` of them g
\* ticks late; appended in ascending order, or with the first one appended last.
\* A beacon may start before minTs: the ingestion keeps every record from the
\* start of minTs's hour on (lines 84-86 and 154).
Beacon(a, p, c, late, g, turned) ==
    LET asc == [j \in 1..c |-> a + (j - 1) * p + (IF j > c - late THEN g ELSE 0)]
    IN  IF turned THEN SubSeq(asc, 2, c) \o <<asc[1]>> ELSE asc
Beacons(hi) ==
    {s \in {Beacon(a, p, c, late, g, turned) :
                a \in {Res, 2 * Res, 2 * Res + 1}, p \in {1, Res, 2 * Res, 3 * Res + 1},
                c \in {6, 7} \cup (11..(10 + MaxBeacon)), late \in {0, 3},
                g \in {10 * Res}, turned \in BOOLEAN} :
        \A j \in DOMAIN s: s[j] <= hi}

\* byte sizes for a series of n connections
DsPatterns == {"zero", "flat", "falling", "mixed"}
ShortDsPatterns == {"zero", "mixed"}
DsOf(pattern, n) ==
    [j \in 1..n |->
        CASE pattern = "zero" -> 0
          [] pattern = "flat" -> 500
          [] pattern = "falling" -> 100 * (n - j)
          [] OTHER -> IF j % 3 = 0 THEN 1500 ELSE 40 + j]

InitAnalyze ==
    /\ pc = "analyze"
    /\ \E w \in AnalyzeWindows:
         /\ minTs = w[1] /\ maxTs = w[2]
         /\ \/ /\ tsData \in SeqsOf(ShortTs, 0, MaxLen)
               /\ \E pattern \in ShortDsPatterns: dsData = DsOf(pattern, Len(tsData))
            \/ /\ tsData \in Beacons(w[2])
               /\ \E pattern \in DsPatterns: dsData = DsOf(pattern, Len(tsData))
    /\ sortedTsData = <<>> /\ sortedDsData = <<>>
    /\ tsScore = NaN /\ dsScore = NaN /\ histScore = NaN /\ durScore = NaN /\ score = NaN
    /\ hist = NoHist /\ durArgs = [histMin |-> 0, histMax |-> 0]
    /\ exitCode = -1 /\ exitMsg = "" /\ calls = <<>>
    /\ arg = <<>> /\ res = <<>>
    /\ HistIdle /\ SniIdle

SpecAnalyze == InitAnalyze /\ [][NextAnalyze]_vars

----------------------------------------------------------------------------
(* The claims about analyze *)

InUnit(x) == ~IsNaN(x) /\ 0 <= x.n /\ x.n <= x.d
Entered(fn) == \E j \in DOMAIN calls: calls[j].fn = fn
Earliest(ts) == CHOOSE t \in Range(ts): \A u \in Range(ts): t <= u
Latest(ts) == CHOOSE t \in Range(ts): \A u \in Range(ts): u <= t

\* C3: for every candidate analyze scores to completion, the timing, size,
\* histogram, duration and composite scores each lie in [0, 1].
C3_ScoresInUnitInterval ==
    pc = "done" =>
        /\ InUnit(tsScore) /\ InUnit(dsScore) /\ InUnit(histScore)
        /\ InUnit(durScore) /\ InUnit(score)

\* an ascending beacon with more than consistencyIdealHours consecutive active
\* buckets, scored to completion with a duration score of 1
C3_Witness ==
    /\ pc = "done" /\ IsAscending(tsData)
    /\ hist.longestRun > consistencyIdealHours
    /\ durScore = FromInt(1)
    /\ RGt(histScore, FromInt(0))
    /\ RGt(score, FromInt(0)) /\ RLt(score, FromInt(1))

\* C5: a candidate with a series of fewer than 2 elements ends in the 'no candidate
\* found' outcome (exit status 0) and no scorer is ever entered with it.
C5_SubMinimumRejected ==
    (Len(tsData) < 2 \/ Len(dsData) < 2) =>
        /\ calls = <<>>
        /\ pc \in {"analyze", "exit"}
        /\ pc = "exit" => (exitCode = 0 /\ exitMsg = NoCandidateMsg)

InsufficientDataMsgs ==
    {"not enough items in sorted data to calculate distinct counts",
     "input length for calculating quartiles is 0",
     "input slice for madm must not be empty"}

\* C6: for a candidate whose series each have at least 2 elements, the
\* insufficient-data fatal exits are never reached.
C6_MinimumLengthSuffices ==
    (Len(tsData) >= 2 /\ Len(dsData) >= 2) => exitMsg \notin InsufficientDataMsgs

\* C10: the span handed to getDurationScore is the earliest and the latest
\* timestamp of the series, whatever the order they were appended in, so that a
\* candidate whose earliest and latest timestamps are a second or more apart never
\* reaches the 'hist max is less than or equal to hist min' exit.
C10_SpanIsEarliestLatest ==
    Entered("getDurationScore") =>
        /\ durArgs = [histMin |-> IntOf(Earliest(tsData)), histMax |-> IntOf(Latest(tsData))]
        /\ (Latest(tsData) - Earliest(tsData) >= Res =>
               exitMsg # "hist max is less than or equal to hist min")

----------------------------------------------------------------------------
(* readSNIFile and getSNIBeacon: the http logs, then the ssl logs, are read    *)
(* line by line against the uid map getConnData built from the conn logs      *)

\* the connection pair looked for (lines 25 and 27)
src == "10.55.100.103"
fqdn == "www.bankofamerica.com"

\* the value of a field a log line does not have: reading it raises KeyError
Missing == "KeyError"

\* line[fqdnField]
NameField(line, field) == IF field = "host" THEN line.host ELSE line.server_name

\* a pass that appends without marking the uid as used
MarkUsedSkipped(u, uid) == u

\* line 152
MarkUsed(u, uid) == [u EXCEPT ![uid].used = TRUE]

\* lines 147-158 for one line: st holds uids, tsData and dsData.  A KeyError
\* (lines 157-158) and a line of another pair both leave everything as it was.
readSNILine(line, field, minStart, st) ==
    IF line.id_orig_h = Missing THEN st
    ELSE IF line.id_orig_h # src THEN st
    ELSE IF NameField(line, field) = Missing THEN st
    ELSE IF NameField(line, field) # fqdn THEN st
    ELSE IF line.uid = Missing THEN st
    ELSE IF line.uid \notin DOMAIN st.uids THEN st
    ELSE IF st.uids[line.uid].used # FALSE THEN st
    ELSE LET marked == MarkUsed(st.uids, line.uid)
         IN  IF st.uids[line.uid].ts >= minStart
             THEN [uids |-> marked,
                   dsData |-> Append(st.dsData, st.uids[line.uid].ds),
                   tsData |-> Append(st.tsData, st.uids[line.uid].ts)]
             ELSE [st EXCEPT !.uids = marked]

\* log lines read over the two log types
MaxLines == 3

\* the zeek uids of the conn logs
Uids == {"C1", "C2"}

\* the start of the hour of minTs, in ticks
StartOfHour == 3600 * Res

\* what getConnData kept of a conn record: before, at and after the start of
\* the hour; two flows may have the same timestamp and size
ConnEntries ==
    {[ts |-> StartOfHour - 1, ds |-> 40, used |-> FALSE],
     [ts |-> StartOfHour, ds |-> 40, used |-> FALSE],
     [ts |-> StartOfHour + 1, ds |-> 1500, used |-> FALSE]}
ConnMaps == UNION {[D -> ConnEntries] : D \in SUBSET Uids}

\* log lines: an http line and an ssl line of the pair for each uid, a line of
\* another client, of another name, without a uid, and of a flow that has no
\* conn record
SniLines ==
    {[uid |-> u, id_orig_h |-> src, host |-> fqdn, server_name |-> Missing] : u \in Uids}
    \cup {[uid |-> u, id_orig_h |-> src, host |-> Missing, server_name |-> fqdn] : u \in Uids}
    \cup {[uid |-> "C1", id_orig_h |-> "10.55.100.104", host |-> fqdn, server_name |-> fqdn],
          [uid |-> "C1", id_orig_h |-> src, host |-> "www.example.com", server_name |-> "www.example.com"],
          [uid |-> Missing, id_orig_h |-> src, host |-> fqdn, server_name |-> fqdn],
          [uid |-> "C9", id_orig_h |-> src, host |-> fqdn, server_name |-> fqdn]}

\* lines 162-168: the series are empty and getConnData has returned
InitSNI ==
    /\ pc = "http" /\ fqdnField = "host"
    /\ uids \in ConnMaps
    /\ minTsStartOfHour = StartOfHour
    /\ linesRead = <<>>
    /\ tsData = <<>> /\ dsData = <<>>
    /\ minTs = 0 /\ maxTs = 0
    /\ sortedTsData = <<>> /\ sortedDsData = <<>>
    /\ tsScore = NaN /\ dsScore = NaN /\ histScore = NaN /\ durScore = NaN /\ score = NaN
    /\ hist = NoHist /\ durArgs = <<>> /\ exitCode = -1 /\ exitMsg = "" /\ calls = <<>>
    /\ arg = <<>> /\ res = <<>>
    /\ HistIdle

\* lines 145-158: the next line of the files of the log type being read
readSNIFileLine ==
    /\ pc \in {"http", "ssl"}
    /\ Len(linesRead) < MaxLines
    /\ \E line \in SniLines:
         /\ linesRead' = Append(linesRead, [field |-> fqdnField, line |-> line])
         /\ LET st == readSNILine(line, fqdnField, minTsStartOfHour,
                                  [uids |-> uids, tsData |-> tsData, dsData |-> dsData])
            IN  uids' = st.uids /\ tsData' = st.tsData /\ dsData' = st.dsData
    /\ UNCHANGED <<pc, fqdnField, minTsStartOfHour, minTs, maxTs, sortedTsData,
                   sortedDsData, tsScore, dsScore, histScore, durScore, score, hist,
                   durArgs, exitCode, exitMsg, calls, fnVars, histVars>>

\* lines 172-176: the http files are done, the ssl files are next
getSNIBeaconSslFiles ==
    /\ pc = "http"
    /\ pc' = "ssl" /\ fqdnField' = "server_name"
    /\ UNCHANGED <<uids, minTsStartOfHour, linesRead, fnVars, analyzeVars, histVars>>

\* line 178
getSNIBeaconReturn ==
    /\ pc = "ssl"
    /\ pc' = "ret"
    /\ res' = <<tsData, dsData>>
    /\ UNCHANGED <<arg, analyzeVars, histVars, sniVars>>

NextSNI == readSNIFileLine \/ getSNIBeaconSslFiles \/ getSNIBeaconReturn
SpecSNI == InitSNI /\ [][NextSNI]_vars

----------------------------------------------------------------------------
(* The claim about readSNIFile *)

\* how often the timestamp and size of conn entry v were appended, and how
\* many used uids have that timestamp and size
Contributions(v) ==
    Cardinality({j \in DOMAIN tsData : tsData[j] = v.ts /\ dsData[j] = v.ds})
UsedWith(v) ==
    Cardinality({u \in DOMAIN uids : uids[u].used /\ uids[u].ts = v.ts /\ uids[u].ds = v.ds})

\* the uids a step marked as used
NewlyUsed == {u \in DOMAIN uids : ~uids[u].used /\ uids'[u].used}

\* the lines read so far that pass the filter of line 147 for uid u
LinesOfPair(u) ==
    {j \in DOMAIN linesRead :
        /\ linesRead[j].line.uid = u
        /\ linesRead[j].line.id_orig_h = src
        /\ NameField(linesRead[j].line, linesRead[j].field) = fqdn}

\* C11: whatever http and ssl lines are read over the one uid map, every uid
\* contributes at most one timestamp and one size (a step appends at most one
\* pair, that of the one uid it marks as used, and no more pairs of a conn entry
\* are in the series than used uids have that entry), a used flag never goes
\* back to False, and tsData and dsData have the same length.
C11_OncePerUid ==
    /\ [](/\ Len(tsData) = Len(dsData)
          /\ \A u \in DOMAIN uids: Contributions(uids[u]) <= UsedWith(uids[u])
          /\ Len(tsData) <= Cardinality({u \in DOMAIN uids : uids[u].used}))
    /\ [][/\ DOMAIN uids' = DOMAIN uids
          /\ \A u \in DOMAIN uids: uids[u].used => uids'[u].used
          /\ Len(tsData') # Len(tsData) =>
                \E u \in DOMAIN uids:
                    /\ NewlyUsed = {u}
                    /\ tsData' = Append(tsData, uids[u].ts)
                    /\ dsData' = Append(dsData, uids[u].ds)]_vars

\* a uid whose line of the pair was read twice in the http logs and once more in
\* the ssl logs, with one timestamp and one size in the series
C11_Witness ==
    /\ pc = "ret" /\ DOMAIN uids = Uids
    /\ \E a, b, c \in LinesOfPair("C1"):
          /\ a < b /\ b < c
          /\ linesRead[a].field = "host" /\ linesRead[b].field = "host"
          /\ linesRead[c].field = "server_name"
    /\ uids["C1"].used /\ ~uids["C2"].used
    /\ tsData = <<uids["C1"].ts>> /\ dsData = <<uids["C1"].ds>>
    /\ uids["C2"].ts = uids["C1"].ts /\ uids["C2"].ds = uids["C1"].ds

====
